---- MODULE Spec2Model ----
(***************************************************************************)
(* Plan progress store, tool-result normalizers and bindings               *)
(* (components/plan/PlanUI.tsx) and the data-stream request adapter        *)
(* (lib/data-stream-adapter.ts, mounted by ChatBox.tsx).                   *)
(***************************************************************************)
EXTENDS Integers, Sequences, FiniteSets, TLC

VARIABLES
    plan,       \* PlanProvider's useState value: Null or a Plan object
    planRef,    \* identity of the object held in plan: it flips whenever a
                \* newly allocated object is stored
    lastOp,     \* the operation the last step performed, with its argument
    crashed,    \* an exception escaped a render (no error boundary catches it)
    trRequest,        \* transformRequestToBackendFormat: its request argument,
    trSystemMessage,  \* its systemMessage argument,
    backend,          \* and what it returned (Undefined before the call)
    windowFetch,    \* window.fetch: 0 is the browser's fetch, i > 0 the wrapper
                    \* the i-th createFetchInterceptor call installed
    interceptors,   \* the closures of the createFetchInterceptor calls so far
    mounted,        \* per ChatBox: the interceptor of its effect, 0 if unmounted
    lastCall,       \* the last call made through window.fetch and its course
    cleanups        \* the cleanup functions called so far, in order, each
                    \* named by the interceptor that returned it

(***************************************************************************)
(* JavaScript values.  Every value is a record tagged by t; the other      *)
(* field names differ from tag to tag.  A string is either Str(s), a text  *)
(* that is not a JSON document, or Json(v), the JSON text of the value v   *)
(* ("2" is Json(Num(2)), "null" is Json(Null)).  Half(n) is the number     *)
(* n + 0.5.  Throw(e) is the outcome of an evaluation that throws e.       *)
(***************************************************************************)
Undefined == [t |-> "undefined"]
Null == [t |-> "null"]
NaN == [t |-> "nan"]
Infinity == [t |-> "inf"]
Bool(b) == [t |-> "bool", b |-> b]
Num(n) == [t |-> "num", n |-> n]
Half(n) == [t |-> "half", h |-> n]
Str(s) == [t |-> "str", s |-> s]
Json(v) == [t |-> "json", v |-> v]
Arr(a) == [t |-> "arr", a |-> a]
Obj(f) == [t |-> "obj", f |-> f]
Throw(e) == [t |-> "throw", e |-> e]
\* Array.prototype.join(",") of two or more element texts: never a JSON text.
Joined(parts) == [t |-> "joined", parts |-> parts]
\* A newly allocated object, as opposed to a reference handed back unchanged.
New(obj) == [t |-> "new", obj |-> obj]

IsString(v) == v.t \in {"str", "json", "joined"}
IsNumber(v) == v.t \in {"num", "half", "nan", "inf"}
IsObject(v) == v.t \in {"obj", "arr"}
IsThrow(v) == v.t = "throw"

\* ToBoolean: the falsy values are undefined, null, false, 0, NaN and "".
Truthy(v) ==
    ~ \/ v.t \in {"undefined", "null", "nan"}
      \/ v = Bool(FALSE)
      \/ v = Num(0)
      \/ v = Str("")

\* a ?? b
Nullish(a, b) == IF a.t \in {"undefined", "null"} THEN b ELSE a

\* record.key : own property of an object; arrays and other objects of the
\* model carry none of the keys the program reads.
Get(record, key) ==
    IF record.t = "obj" /\ key \in DOMAIN record.f THEN record.f[key] ELSE Undefined

\* JSON.parse(text)
JSONparse(text) == IF text.t = "json" THEN text.v ELSE Throw("SyntaxError")

\* String(value).  An object is converted by OrdinaryToPrimitive: an own
\* "toString" property shadows Object.prototype.toString, and a value read
\* from JSON is never callable, so Object.prototype.valueOf is tried next; it
\* returns the object itself and the conversion throws a TypeError.  An array
\* is converted by join(","), null and undefined elements giving "".
RECURSIVE String(_)
ElementText(v) == IF v.t \in {"undefined", "null"} THEN Str("") ELSE String(v)
String(v) ==
    CASE IsString(v) -> v
      [] v.t = "undefined" -> Str("undefined")
      [] v.t = "nan" -> Str("NaN")
      [] v.t = "inf" -> Str("Infinity")
      [] v.t \in {"null", "bool", "num", "half"} -> Json(v)
      [] v.t = "obj" ->
            IF "toString" \in DOMAIN v.f THEN Throw("TypeError")
            ELSE Str("[object Object]")
      [] v.t = "arr" ->
            LET texts == [i \in 1..Len(v.a) |-> ElementText(v.a[i])]
            IN IF \E i \in 1..Len(v.a) : IsThrow(texts[i]) THEN Throw("TypeError")
               ELSE IF Len(v.a) = 0 THEN Str("")
               ELSE IF Len(v.a) = 1 THEN texts[1]
               ELSE Joined(texts)

\* The texts of the model that are no JSON document and begin with an integer.
LeadingInt(s) == CASE s = "2abc" -> Num(2) [] s = "1 of 3" -> Num(1) [] OTHER -> NaN

\* Number.parseInt(text, 10): the longest integer prefix, else NaN.
RECURSIVE parseInt(_)
parseInt(text) ==
    CASE text.t = "json" ->
            IF text.v.t = "num" THEN text.v
            ELSE IF text.v.t = "half"
            THEN Num(IF text.v.h >= 0 THEN text.v.h ELSE text.v.h + 1)
            ELSE NaN
      [] text.t = "str" -> LeadingInt(text.s)
      [] text.t = "joined" -> parseInt(text.parts[1])

\* Comparisons of a number with an integer, NaN comparing false.
LessThan(x, k) ==
    CASE x.t = "num" -> x.n < k
      [] x.t = "half" -> x.h < k
      [] OTHER -> FALSE
AtLeast(x, k) ==
    CASE x.t = "num" -> x.n >= k
      [] x.t = "half" -> x.h >= k
      [] x.t = "inf" -> TRUE
      [] OTHER -> FALSE
isFinite(x) == x.t \in {"num", "half"}

(***************************************************************************)
(* Result normalizers                                                      *)
(***************************************************************************)
PlanStep(description, status) ==
    [t |-> "step", description |-> description, status |-> status]
Plan(steps) == [t |-> "plan", steps |-> steps]
UpdatePlanResult(index, description, status) ==
    [t |-> "update", index |-> index, description |-> description, status |-> status]

RECURSIVE asRecord(_)
asRecord(value) ==
    IF IsString(value)
    THEN LET parsed == JSONparse(value)
         IN IF IsThrow(parsed) THEN Null ELSE asRecord(parsed)
    ELSE IF IsObject(value) THEN value
    ELSE Null

\* normalizeStep taking any status the record carries for completed.
normalizeStep_anyStatus(value) ==
    LET record == asRecord(value)
        description == IF IsString(Get(record, "description"))
                       THEN Get(record, "description") ELSE Null
        status == IF Get(record, "status") # Undefined
                  THEN Str("completed") ELSE Str("pending")
    IN IF record = Null THEN Null
       ELSE IF ~Truthy(description) THEN Null
       ELSE PlanStep(description, status)

normalizeStep(value) ==
    LET record == asRecord(value)
        description == IF IsString(Get(record, "description"))
                       THEN Get(record, "description") ELSE Null
        status == IF Get(record, "status") = Str("completed")
                  THEN Str("completed") ELSE Str("pending")
    IN IF record = Null THEN Null
       ELSE IF ~Truthy(description) THEN Null
       ELSE PlanStep(description, status)

\* normalizePlan without the rejection of a Plan whose entries all failed.
normalizePlan_keepEmpty(value) ==
    LET record == asRecord(value)
        stepsSource == IF Get(record, "steps").t = "arr" THEN Get(record, "steps").a ELSE <<>>
        normalized == [i \in 1..Len(stepsSource) |-> normalizeStep(stepsSource[i])]
        steps == SelectSeq(normalized, LAMBDA n : n # Null)
    IN IF record = Null THEN Null
       ELSE IF Len(stepsSource) = 0 THEN Null
       ELSE Plan(steps)

normalizePlan(value) ==
    LET record == asRecord(value)
        stepsSource == IF Get(record, "steps").t = "arr" THEN Get(record, "steps").a ELSE <<>>
        normalized == [i \in 1..Len(stepsSource) |-> normalizeStep(stepsSource[i])]
        steps == SelectSeq(normalized, LAMBDA n : n # Null)
    IN IF record = Null THEN Null
       ELSE IF Len(stepsSource) = 0 THEN Null
       ELSE IF Len(steps) = 0 THEN Null
       ELSE Plan(steps)

\* normalizeCreateResult never looking at a nested plan field.
normalizeCreateResult_ignoreNested(value) ==
    LET record == asRecord(value)
    IN IF record = Null THEN Null ELSE normalizePlan(record)

normalizeCreateResult(value) ==
    LET record == asRecord(value)
    IN IF record = Null THEN Null
       ELSE IF Truthy(Get(record, "plan")) THEN normalizePlan(Get(record, "plan"))
       ELSE normalizePlan(record)

normalizeUpdateResult(value) ==
    LET record == asRecord(value)
        indexRaw == Get(record, "index")
        text == String(Nullish(indexRaw, Json(Num(-1))))
        index == IF IsNumber(indexRaw) THEN indexRaw ELSE parseInt(text)
        description == IF IsString(Get(record, "description"))
                       THEN Get(record, "description") ELSE Undefined
        status == IF Get(record, "status") = Str("completed") THEN Str("completed")
                  ELSE IF Get(record, "status") = Str("pending") THEN Str("pending")
                  ELSE Undefined
    IN IF record = Null THEN Null
       ELSE IF ~IsNumber(indexRaw) /\ IsThrow(text) THEN text
       ELSE IF ~isFinite(index) \/ LessThan(index, 0) THEN Null
       ELSE UpdatePlanResult(index, description, status)

(***************************************************************************)
(* Plan Store                                                              *)
(***************************************************************************)
\* updateStep rebuilding the Plan even when the index is out of range.
updateStep_copyOutOfRange(prev, update) ==
    IF prev = Null THEN prev
    ELSE New(Plan([idx \in 1..Len(prev.steps) |->
            IF update.index # Num(idx - 1) THEN prev.steps[idx]
            ELSE PlanStep(Nullish(update.description, prev.steps[idx].description),
                          Nullish(update.status, prev.steps[idx].status))]))

\* updateStep defaulting an absent status to pending instead of keeping it.
updateStep_defaultStatus(prev, update) ==
    IF prev = Null THEN prev
    ELSE IF LessThan(update.index, 0) \/ AtLeast(update.index, Len(prev.steps)) THEN prev
    ELSE New(Plan([idx \in 1..Len(prev.steps) |->
            IF update.index # Num(idx - 1) THEN prev.steps[idx]
            ELSE PlanStep(Nullish(update.description, prev.steps[idx].description),
                          Nullish(update.status, Str("pending")))]))

\* updateStep inserting the patched Step before the old one (splice without
\* a delete count) instead of replacing it.
updateStep_insert(prev, update) ==
    IF prev = Null THEN prev
    ELSE IF LessThan(update.index, 0) \/ AtLeast(update.index, Len(prev.steps)) THEN prev
    ELSE IF update.index.t # "num" THEN New(Plan(prev.steps))
    ELSE LET i == update.index.n + 1
         IN New(Plan(SubSeq(prev.steps, 1, i - 1)
                \o <<PlanStep(Nullish(update.description, prev.steps[i].description),
                              Nullish(update.status, prev.steps[i].status))>>
                \o SubSeq(prev.steps, i, Len(prev.steps))))

\* The updater updateStep hands to setPlan: prev itself, or a new Plan.
updateStep(prev, update) ==
    IF prev = Null THEN prev
    ELSE IF LessThan(update.index, 0) \/ AtLeast(update.index, Len(prev.steps)) THEN prev
    ELSE New(Plan([idx \in 1..Len(prev.steps) |->
            IF update.index # Num(idx - 1) THEN prev.steps[idx]
            ELSE PlanStep(Nullish(update.description, prev.steps[idx].description),
                          Nullish(update.status, prev.steps[idx].status))]))

\* React's setState: the stored value and its identity after storing next,
\* which is a reference already held (same identity) or a New object.
StoreState(next) ==
    IF next.t = "new"
    THEN /\ plan' = next.obj
         /\ planRef' = 1 - planRef
    ELSE /\ plan' = next
         /\ planRef' = planRef

(***************************************************************************)
(* Request Adapter: transformRequestToBackendFormat                        *)
(***************************************************************************)
IsNullish(v) == v.t \in {"undefined", "null"}
\* a || b
Or(a, b) == IF Truthy(a) THEN a ELSE b

\* The keys of an object as a sequence (Object.keys / Object.entries).
RECURSIVE KeysSeq(_)
KeysSeq(keys) ==
    IF keys = {} THEN <<>>
    ELSE LET k == CHOOSE x \in keys : TRUE IN <<k>> \o KeysSeq(keys \ {k})

\* texts.join(""), for the texts of the model (all Str).
RECURSIVE JoinTexts(_)
JoinTexts(texts) ==
    IF Len(texts) = 0 THEN ""
    ELSE (CASE texts[1].t = "str" -> texts[1].s) \o JoinTexts(Tail(texts))

\* systemContent taking the text of the first text-typed part only.
systemContent_firstPart(msg) ==
    LET content == Get(msg, "content")
    IN IF IsNullish(content) THEN Str("")
       ELSE IF content.t # "arr" THEN Throw("TypeError")
       ELSE IF \E i \in 1..Len(content.a) : IsNullish(content.a[i]) THEN Throw("TypeError")
       ELSE LET parts == SelectSeq(content.a, LAMBDA part : Get(part, "type") = Str("text"))
            IN IF Len(parts) = 0 THEN Str("") ELSE Or(Get(parts[1], "text"), Str(""))

\* msg.content?.filter(part => part.type === "text")
\*     .map(part => part.text || "").join("") || ""
\* A content that is neither nullish nor an array has no filter method, and
\* reading .type of a null part throws.
systemContent(msg) ==
    LET content == Get(msg, "content")
    IN IF IsNullish(content) THEN Str("")
       ELSE IF content.t # "arr" THEN Throw("TypeError")
       ELSE IF \E i \in 1..Len(content.a) : IsNullish(content.a[i]) THEN Throw("TypeError")
       ELSE LET parts == SelectSeq(content.a, LAMBDA part : Get(part, "type") = Str("text"))
            IN Str(JoinTexts([i \in 1..Len(parts) |-> Or(Get(parts[i], "text"), Str(""))]))

\* (msg.content || []).map(part => part.type === "text"
\*     ? {type: "text", text: part.text || ""} : part)
transformedContent(msg) ==
    LET content == Or(Get(msg, "content"), Arr(<<>>))
    IN IF content.t # "arr" THEN Throw("TypeError")
       ELSE IF \E i \in 1..Len(content.a) : IsNullish(content.a[i]) THEN Throw("TypeError")
       ELSE Arr([i \in 1..Len(content.a) |->
                IF Get(content.a[i], "type") = Str("text")
                THEN Obj([type |-> Str("text"), text |-> Or(Get(content.a[i], "text"), Str(""))])
                ELSE content.a[i]])

\* The array of the values for (const msg of v) visits: TypeError when v is
\* not iterable.
\* A text yields its characters, which are texts again.
Iterate(v) ==
    CASE v.t = "arr" -> v
      [] v = Str("") -> Arr(<<>>)
      [] IsString(v) -> Arr(<<Str("c")>>)
      [] OTHER -> Throw("TypeError")

\* The for loop over the messages: system and messages after it, or a throw.
RECURSIVE LoopMessages(_, _, _, _)
LoopMessages(msgs, i, system, messages) ==
    IF i > Len(msgs) THEN [t |-> "acc", system |-> system, messages |-> messages]
    ELSE LET msg == msgs[i]
             role == Get(msg, "role")
         IN IF IsNullish(msg) THEN Throw("TypeError")
            ELSE IF role = Str("system")
            THEN LET text == systemContent(msg)
                 IN IF IsThrow(text) THEN text
                    ELSE LoopMessages(msgs, i + 1,
                                      IF Truthy(text) THEN text ELSE system, messages)
            ELSE IF role = Str("user") \/ role = Str("assistant")
            THEN LET content == transformedContent(msg)
                 IN IF IsThrow(content) THEN content
                    ELSE LoopMessages(msgs, i + 1, system,
                            Append(messages, Obj([role |-> role, content |-> content])))
            ELSE LoopMessages(msgs, i + 1, system, messages)

\* The tools of the output.
transformTools(request) ==
    LET tools == Get(request, "tools")
    IN IF ~Truthy(tools) THEN Arr(<<>>)
       ELSE IF tools.t = "arr" /\ Len(tools.a) > 0
       THEN IF \E i \in 1..Len(tools.a) : IsNullish(tools.a[i]) THEN Throw("TypeError")
            ELSE Arr([i \in 1..Len(tools.a) |->
                    Obj([name |-> Or(Get(tools.a[i], "name"), tools.a[i]),
                         description |-> Get(tools.a[i], "description"),
                         parameters |-> Or(Get(tools.a[i], "parameters"), Obj(<<>>))])])
       ELSE IF tools.t = "obj" /\ DOMAIN tools.f # {}
       THEN LET names == KeysSeq(DOMAIN tools.f)
            IN Arr([i \in 1..Len(names) |->
                    Obj([name |-> Str(names[i]),
                         description |-> Get(tools.f[names[i]], "description"),
                         parameters |-> Or(Get(tools.f[names[i]], "parameters"), Obj(<<>>))])])
       ELSE Arr(<<>>)

\* transformRequestToBackendFormat letting a provided systemMessage win over
\* the system messages of the request.
transformRequestToBackendFormat_overrideWins(request, systemMessage) ==
    IF IsNullish(request) THEN Throw("TypeError")
    ELSE LET source == Or(Get(request, "messages"), Arr(<<>>))
             msgs == Iterate(source)
             loop == LoopMessages(msgs.a, 1, Str(""), <<>>)
             tools == transformTools(request)
         IN IF IsThrow(msgs) THEN msgs
            ELSE IF IsThrow(loop) THEN loop
            ELSE IF IsThrow(tools) THEN tools
            ELSE Obj([system |-> Or(systemMessage, loop.system), tools |-> tools,
                      messages |-> Arr(loop.messages)])

transformRequestToBackendFormat(request, systemMessage) ==
    IF IsNullish(request) THEN Throw("TypeError")
    ELSE LET source == Or(Get(request, "messages"), Arr(<<>>))
             msgs == Iterate(source)
             loop == LoopMessages(msgs.a, 1, Or(systemMessage, Str("")), <<>>)
             tools == transformTools(request)
         IN IF IsThrow(msgs) THEN msgs
            ELSE IF IsThrow(loop) THEN loop
            ELSE IF IsThrow(tools) THEN tools
            ELSE Obj([system |-> loop.system, tools |-> tools,
                      messages |-> Arr(loop.messages)])

(***************************************************************************)
(* Request Adapter: createFetchInterceptor                                 *)
(***************************************************************************)
\* JSON.stringify(value): properties whose value is undefined are left out,
\* undefined and non-finite numbers inside an array become null.
RECURSIVE Serializable(_)
Serializable(v) ==
    CASE v.t = "obj" ->
            Obj([k \in {x \in DOMAIN v.f : v.f[x] # Undefined} |-> Serializable(v.f[k])])
      [] v.t = "arr" ->
            Arr([i \in 1..Len(v.a) |->
                    IF v.a[i].t \in {"undefined", "nan", "inf"} THEN Null
                    ELSE Serializable(v.a[i])])
      [] v.t \in {"nan", "inf"} -> Null
      [] OTHER -> v
JSONstringify(v) == Json(Serializable(v))

\* The arguments of fetch.  input is a URL text (Str), a URL object or a
\* Request object; init is Undefined or a RequestInit, whose headers are
\* Undefined, a plain object (Obj) or a Headers instance.
URL(href) == [t |-> "URL", href |-> href]
Request(url) == [t |-> "Request", url |-> url]
RequestInit(method, body, headers) ==
    [t |-> "init", method |-> method, body |-> body, headers |-> headers]
Headers(h) == [t |-> "Headers", h |-> h]
FormData == [t |-> "FormData"]
Blob == [t |-> "Blob"]

\* url.includes(apiEndpoint), for the URLs and endpoints of the model.
includes(url, apiEndpoint) ==
    \/ url = apiEndpoint
    \/ <<url, apiEndpoint>> \in
         { <<"http://h/api/chat/feedback", "http://h/api/chat">>,
           <<"http://h/api/chat?v=2", "http://h/api/chat">> }

\* {...value}: the own enumerable properties.  A Headers instance keeps its
\* entries in an internal list and has none; undefined spreads to nothing.
Spread(value) == IF value.t = "obj" THEN value.f ELSE <<>>

\* {"Content-Type": "application/json", ...headers, ...(init?.headers || {})}
newHeaders(headers, init) ==
    LET own == IF init = Undefined THEN Undefined ELSE init.headers
    IN Obj(Spread(Or(own, Obj(<<>>))) @@ headers @@ ("Content-Type" :> "application/json"))

\* What one run of the wrapper does: the calls it makes to originalFetch, in
\* order, and whether it raises (rejects) instead of answering.
Call(input, init) == [input |-> input, init |-> init]
Outcome(calls, raised) == [calls |-> calls, raised |-> raised]

\* The function createFetchInterceptor assigns to window.fetch; self is its
\* closure (apiEndpoint, headers, systemMessage, originalFetch).
wrapper(self, input, init) ==
    LET url == CASE input.t = "str" -> input.s
                 [] input.t = "URL" -> input.href
                 [] OTHER -> ""
        method == IF init = Undefined THEN Undefined ELSE init.method
    IN IF method = Str("POST") /\ includes(url, self.apiEndpoint)
       THEN LET originalBody ==
                    IF Truthy(init.body)
                    THEN (IF IsString(init.body) THEN JSONparse(init.body) ELSE init.body)
                    ELSE Obj(<<>>)
                transformedBody ==
                    transformRequestToBackendFormat(originalBody, self.systemMessage)
            IN IF IsThrow(originalBody)
               THEN Outcome(<<Call(input, [init EXCEPT !.headers = newHeaders(self.headers, init)])>>, FALSE)
               ELSE IF init.body = FormData
               THEN Outcome(<<Call(input, init)>>, FALSE)
               ELSE IF IsThrow(transformedBody)
               THEN Outcome(<<Call(input, [init EXCEPT !.headers = newHeaders(self.headers, init)])>>, FALSE)
               ELSE Outcome(<<Call(input, [init EXCEPT
                                !.body = JSONstringify(transformedBody),
                                !.headers = newHeaders(self.headers, init)])>>, FALSE)
       ELSE Outcome(<<Call(input, init)>>, FALSE)

\* createFetchInterceptor(apiEndpoint, headers, systemMessage) while
\* window.fetch is current: the closure it builds.
createFetchInterceptor(config, current) ==
    [apiEndpoint |-> config.apiEndpoint, headers |-> config.headers,
     systemMessage |-> config.systemMessage, originalFetch |-> current]

\* The cleanup function of a closure: the value it assigns to window.fetch.
cleanup(self) == self.originalFetch

\* A call of function f: the functions entered, in order, each with the
\* arguments it received.  Function 0 is the browser's fetch.
Hop(f, input, init, raised) == [fn |-> f, input |-> input, init |-> init, raised |-> raised]
RECURSIVE Invoke(_, _, _, _)
RECURSIVE InvokeAll(_, _, _, _)
InvokeAll(fns, f, calls, i) ==
    IF i > Len(calls) THEN <<>>
    ELSE Invoke(fns, f, calls[i].input, calls[i].init) \o InvokeAll(fns, f, calls, i + 1)
Invoke(fns, f, input, init) ==
    IF f = 0 THEN <<Hop(0, input, init, FALSE)>>
    ELSE LET outcome == wrapper(fns[f], input, init)
         IN <<Hop(f, input, init, outcome.raised)>>
                \o InvokeAll(fns, fns[f].originalFetch, outcome.calls, 1)

(***************************************************************************)
(* Bounds and the values the operations are exercised on                   *)
(***************************************************************************)
MaxSteps == 2

SeqsUpTo(S, n) == UNION {[1..k -> S] : k \in 1..n}

Statuses == {Str("pending"), Str("completed")}

\* Plans and PlanUpdates handed to the store directly (SpecStore).
Plans == {Plan(s) : s \in SeqsUpTo({PlanStep(Str("a"), st) : st \in Statuses}, MaxSteps)}
PlanUpdates ==
    {UpdatePlanResult(i, d, st) :
        i \in {Num(k) : k \in -1..(MaxSteps + 1)} \cup {Half(0)},
        d \in {Str("b"), Str(""), Undefined},
        st \in Statuses \cup {Undefined}}

\* Tool results delivered to the bindings (SpecBindings): untrusted values.
StepValues ==
    { Obj([description |-> Str("a")]),
      Obj([description |-> Str("a"), status |-> Str("completed")]) }
OddStepArrays ==
    { <<>>, <<Null>>, <<Str("oops")>>, <<Num(3)>>,
      <<Obj([description |-> Str(""), status |-> Str("completed")])>>,
      <<Obj([description |-> Str(""), status |-> Str("completed")]),
        Obj([description |-> Str("a")])>>,
      <<Json(Obj([description |-> Str("a"), status |-> Str("completed")])),
        Json(Str("a"))>>,
      <<Obj([description |-> Num(1)])>>,
      <<Obj([status |-> Str("completed")])>>,
      <<Obj([description |-> Str("a"), status |-> Str("done")])>>,
      <<Arr(<<>>), Obj([description |-> Str("a"), status |-> Num(1)])>> }
StepArrays == SeqsUpTo(StepValues, MaxSteps) \cup OddStepArrays
PlanValues ==
    {Obj([steps |-> Arr(a)]) : a \in StepArrays}
        \cup { Obj(<<>>), Arr(<<>>), Null, Num(5), Str("not json"), Str(""),
               Obj([steps |-> Str("a")]), Obj([steps |-> Null]),
               Obj([steps |-> Obj([description |-> Str("a")])]),
               Json(Obj([steps |-> Arr(<<Obj([description |-> Str("a")])>>)])),
               Json(Null), Json(Num(1)), Json(Arr(<<>>)), Json(Str("a")) }
CreateResults ==
    PlanValues
        \cup {Obj([plan |-> p]) : p \in PlanValues}
        \cup { Undefined, Bool(TRUE),
               Json(Obj([plan |-> Obj([steps |-> Arr(<<Obj([description |-> Str("a")])>>)])])),
               Obj([plan |-> Null,
                    steps |-> Arr(<<Obj([description |-> Str("a")])>>)]),
               Obj([plan |-> Num(0),
                    steps |-> Arr(<<Obj([description |-> Str("a")])>>)]),
               Obj([plan |-> Bool(TRUE),
                    steps |-> Arr(<<Obj([description |-> Str("a")])>>)]) }

\* The result of one create_plan call: MaxSteps pending Steps.
RedeliveredResult ==
    Obj([plan |-> Obj([steps |-> Arr([i \in 1..MaxSteps |-> Obj([description |-> Str("a")])])])])

OddIndexes ==
    { Undefined, Null, NaN, Infinity, Bool(TRUE), Half(0),
      Json(Num(1)), Json(Num(-1)), Json(Half(1)), Json(Null),
      Str("2abc"), Str("abc"), Str(""),
      Obj(<<>>), Obj([toString |-> Null]), Obj([valueOf |-> Null]),
      Arr(<<>>), Arr(<<Num(0)>>), Arr(<<Num(1), Num(0)>>),
      Arr(<<Obj([toString |-> Num(1)])>>) }
UpdateRecord(i, d, st) ==
    Obj([k \in (IF i # Undefined THEN {"index"} ELSE {})
                \cup (IF d # Undefined THEN {"description"} ELSE {})
                \cup (IF st # Undefined THEN {"status"} ELSE {}) |->
            CASE k = "index" -> i [] k = "description" -> d [] k = "status" -> st])
UpdateResults ==
    {UpdateRecord(Num(k), x[1], x[2]) :
        k \in {-1, 0, MaxSteps - 1, MaxSteps},
        x \in { <<Undefined, Undefined>>, <<Str("b"), Undefined>>, <<Str(""), Undefined>>,
                <<Undefined, Str("completed")>>, <<Undefined, Str("pending")>>,
                <<Str("b"), Str("completed")>> }}
        \cup {UpdateRecord(i, Undefined, Str("completed")) : i \in OddIndexes}
        \cup { Undefined, Null, Num(0), Str("not json"), Arr(<<Num(0)>>),
               Json(Null), Json(Num(0)),
               Json(UpdateRecord(Json(Num(MaxSteps - 1)), Undefined, Str("completed"))),
               Json(UpdateRecord(Num(0), Str("b"), Undefined)),
               UpdateRecord(Num(0), Num(7), Str("done")),
               UpdateRecord(Num(0), Null, Null) }

\* Requests handed to transformRequestToBackendFormat (SpecTransform).
MaxMessages == 2
text(s) == Obj([type |-> Str("text"), text |-> Str(s)])
message(role, parts) == Obj([role |-> Str(role), content |-> Arr(parts)])
MessageValues ==
    { message("system", <<text("A"), text("B")>>),
      message("system", <<text("C")>>),
      message("system", <<text("")>>),
      message("user", <<text("hi")>>),
      message("assistant", <<text("yo"), Obj([type |-> Str("tool-call"), toolName |-> Str("search")])>>),
      message("tool", <<text("r")>>),
      message("user", <<Obj([type |-> Str("text"), text |-> Str("hi"), id |-> Str("p1")])>>) }
ToolsValues ==
    { Undefined, Obj(<<>>), Arr(<<>>),
      Obj([search |-> Obj([description |-> Str("d")])]),
      Arr(<<Obj([name |-> Str("search"), description |-> Str("d")]), Str("lookup")>>),
      Arr(<<Obj([description |-> Str("d")])>>),
      Obj([search |-> Obj([parameters |-> Obj([q |-> Str("text")])]), calc |-> Null]),
      Str("all") }
Requests ==
    {Obj([messages |-> Arr(m), tools |-> tl]) :
        m \in SeqsUpTo(MessageValues, MaxMessages) \cup {<<>>}, tl \in ToolsValues \ {Undefined}}
    \cup {Obj([messages |-> Arr(m)]) : m \in SeqsUpTo(MessageValues, MaxMessages) \cup {<<>>}}
SystemMessages == {Undefined, Str(""), Str("O")}

\* ChatBox instances, their props, and the calls made through window.fetch
\* (SpecAdapter: mounting and unmounting; SpecWrapper: the rewriting).
NumChatBoxes == 2
MaxInstalls == 3
MaxCleanups == 4
ChatBoxes == 1..NumChatBoxes
ApiEndpoint == "http://h/api/chat"
Props(headers, systemMessage) ==
    [apiEndpoint |-> ApiEndpoint, headers |-> headers, systemMessage |-> systemMessage]
AdapterProps == {Props(<<>>, Undefined), Props(<<>>, Str("O"))}
WrapperProps ==
    { Props(<<>>, Undefined),
      Props(("X-Key" :> "k"), Str("O")),
      Props(("X-Key" :> "k") @@ ("Content-Type" :> "text/plain"), Undefined) }

chat == Obj([messages |-> Arr(<<message("system", <<text("A")>>), message("user", <<text("hi")>>)>>),
             tools |-> Obj(<<>>)])
\* Bodies whose parsing or transformation throws.
BadBodies ==
    { Str("not json"),
      Json(Null),
      Json(Obj([messages |-> Num(5)])),
      Json(Obj([messages |-> Obj(<<>>)])),
      Json(Obj([messages |-> Arr(<<Null>>)])),
      Json(Obj([messages |-> Arr(<<message("user", <<Null>>)>>)])),
      Json(Obj([messages |-> Arr(<<Obj([role |-> Str("system"), content |-> Str("plain")])>>)])),
      Json(Obj([messages |-> Arr(<<message("user", <<text("hi")>>)>>), tools |-> Arr(<<Null>>)])) }
Bodies ==
    BadBodies
    \cup { Undefined, Str(""), FormData, Blob,
           Json(chat),
           Json(Obj([messages |-> Arr(<<message("user", <<text("hi")>>)>>)])),
           Json(Obj([messages |-> Str("abc")])),
           Json(Obj([messages |-> Arr(<<>>), tools |-> Obj([search |-> Null])])),
           Json(Num(1)) }
HeadersInits ==
    { Undefined,
      Obj(("X-Trace" :> "1")),
      Obj(("X-Key" :> "mine") @@ ("Content-Type" :> "text/plain")),
      Headers(("X-Trace" :> "1")) }
Inits ==
    {RequestInit(Str("POST"), b, Undefined) : b \in Bodies}
    \cup {RequestInit(Str("POST"), b, h) :
            b \in {Str("not json"), Json(Obj([messages |-> Arr(<<Null>>)])), Json(chat), Blob},
            h \in HeadersInits}
    \cup {RequestInit(m, b, Undefined) :
            m \in {Str("GET"), Str("post"), Undefined}, b \in {Undefined, Json(chat)}}
    \cup {Undefined}
FetchCalls ==
    {Call(Str(ApiEndpoint), i) : i \in Inits}
    \cup {Call(in, i) :
            in \in { Str("http://h/health"), Str("http://h/api/chat/feedback"),
                     URL(ApiEndpoint), Request(ApiEndpoint) },
            i \in { RequestInit(Str("POST"), Json(chat), Undefined),
                    RequestInit(Str("POST"), Str("not json"), Obj(("X-Trace" :> "1"))),
                    Undefined }}
ProbeCalls ==
    { Call(Str(ApiEndpoint), RequestInit(Str("POST"), Json(chat), Undefined)),
      Call(Str(ApiEndpoint), RequestInit(Str("GET"), Undefined, Undefined)),
      Call(Str("http://h/health"), RequestInit(Str("POST"), Json(chat), Undefined)) }

(***************************************************************************)
(* Operations                                                              *)
(***************************************************************************)
storeVars == <<plan, planRef, lastOp, crashed>>
transformVars == <<trRequest, trSystemMessage, backend>>
adapterVars == <<windowFetch, interceptors, mounted, lastCall, cleanups>>
vars == <<storeVars, transformVars, adapterVars>>

InitStore ==
    /\ plan = Null
    /\ planRef = 0
    /\ lastOp = [op |-> "init"]
    /\ crashed = FALSE

InitTransform ==
    /\ trRequest = Obj(<<>>)
    /\ trSystemMessage = Undefined
    /\ backend = Undefined

InitAdapter ==
    /\ windowFetch = 0
    /\ interceptors = <<>>
    /\ mounted = [c \in ChatBoxes |-> 0]
    /\ lastCall = Undefined
    /\ cleanups = <<>>

Init == InitStore /\ InitTransform /\ InitAdapter

\* setPlan(p), called with null or with a Plan object the caller built.
SetPlan(p) ==
    /\ ~crashed
    /\ StoreState(IF p = Null THEN Null ELSE New(p))
    /\ lastOp' = [op |-> "setPlan", p |-> p]
    /\ UNCHANGED <<crashed, transformVars, adapterVars>>

\* updateStep(update)
UpdateStep(update) ==
    /\ ~crashed
    /\ StoreState(updateStep(plan, update))
    /\ lastOp' = [op |-> "updateStep", update |-> update]
    /\ UNCHANGED <<crashed, transformVars, adapterVars>>

\* CreatePlanToolUI appending the Steps of the result to the Plan held.
CreatePlanToolUI_merge(result) ==
    LET normalized == normalizeCreateResult(result)
    IN /\ ~crashed
       /\ UNCHANGED <<transformVars, adapterVars>>
       /\ lastOp' = [op |-> "create_plan", result |-> result, normalized |-> normalized]
       /\ crashed' = IsThrow(normalized)
       /\ IF IsThrow(normalized) \/ normalized = Null
          THEN UNCHANGED <<plan, planRef>>
          ELSE StoreState(New(IF plan = Null THEN normalized
                              ELSE Plan(SubSeq(plan.steps \o normalized.steps, 1, MaxSteps))))

\* A render of CreatePlanToolUI with a new result value: useMemo computes
\* normalized, and the effect calls setPlan with it when it is not null.
CreatePlanToolUI(result) ==
    LET normalized == normalizeCreateResult(result)
    IN /\ ~crashed
       /\ UNCHANGED <<transformVars, adapterVars>>
       /\ lastOp' = [op |-> "create_plan", result |-> result, normalized |-> normalized]
       /\ crashed' = IsThrow(normalized)
       /\ IF IsThrow(normalized) \/ normalized = Null
          THEN UNCHANGED <<plan, planRef>>
          ELSE StoreState(New(normalized))

\* A render of UpdatePlanToolUI with a new result value.
UpdatePlanToolUI(result) ==
    LET normalized == normalizeUpdateResult(result)
    IN /\ ~crashed
       /\ UNCHANGED <<transformVars, adapterVars>>
       /\ lastOp' = [op |-> "update_plan_step", result |-> result, normalized |-> normalized]
       /\ crashed' = IsThrow(normalized)
       /\ IF IsThrow(normalized) \/ normalized = Null
          THEN UNCHANGED <<plan, planRef>>
          ELSE StoreState(updateStep(plan, normalized))

\* One call of transformRequestToBackendFormat on the arguments drawn.
Transform ==
    /\ backend = Undefined
    /\ backend' = transformRequestToBackendFormat(trRequest, trSystemMessage)
    /\ UNCHANGED <<trRequest, trSystemMessage, storeVars, adapterVars>>

\* The effect of ChatBox c runs with the props given: createFetchInterceptor
\* captures window.fetch and installs its wrapper.
Install(c, props) ==
    /\ interceptors' = Append(interceptors, createFetchInterceptor(props, windowFetch))
    /\ windowFetch' = Len(interceptors) + 1
    /\ mounted' = [mounted EXCEPT ![c] = Len(interceptors) + 1]

\* ChatBox c mounts.
Mount(c, props) ==
    /\ mounted[c] = 0
    /\ Len(interceptors) < MaxInstalls
    /\ Install(c, props)
    /\ UNCHANGED <<lastCall, cleanups, storeVars, transformVars>>

\* ChatBox c unmounts: React calls the cleanup its effect returned.
Unmount(c) ==
    /\ mounted[c] # 0
    /\ windowFetch' = cleanup(interceptors[mounted[c]])
    /\ mounted' = [mounted EXCEPT ![c] = 0]
    /\ cleanups' = Append(cleanups, mounted[c])
    /\ UNCHANGED <<interceptors, lastCall, storeVars, transformVars>>

\* ChatBox c renders again with changed dependencies (a headers prop left
\* out or written inline is a new object on every render): within one
\* commit React calls the previous cleanup and runs the effect again.
Rerender(c, props) ==
    /\ mounted[c] # 0
    /\ Len(interceptors) < MaxInstalls
    /\ interceptors' = Append(interceptors,
            createFetchInterceptor(props, cleanup(interceptors[mounted[c]])))
    /\ windowFetch' = Len(interceptors) + 1
    /\ mounted' = [mounted EXCEPT ![c] = Len(interceptors) + 1]
    /\ cleanups' = Append(cleanups, mounted[c])
    /\ UNCHANGED <<lastCall, storeVars, transformVars>>

\* Some code calls window.fetch(input, init).
Fetch(call) ==
    /\ lastCall' = [call |-> call,
                    active |-> {mounted[c] : c \in ChatBoxes} \ {0},
                    hops |-> Invoke(interceptors, windowFetch, call.input, call.init)]
    /\ UNCHANGED <<windowFetch, interceptors, mounted, cleanups, storeVars, transformVars>>

\* A caller other than ChatBox calls createFetchInterceptor and keeps the
\* cleanup function it returns.
CallCreateFetchInterceptor(props) ==
    /\ Len(interceptors) < MaxInstalls
    /\ interceptors' = Append(interceptors, createFetchInterceptor(props, windowFetch))
    /\ windowFetch' = Len(interceptors) + 1
    /\ UNCHANGED <<mounted, lastCall, cleanups, storeVars, transformVars>>

\* The caller calls the cleanup function interceptor i returned, for the
\* first time or again.
CallCleanup(i) ==
    /\ Len(cleanups) < MaxCleanups
    /\ windowFetch' = cleanup(interceptors[i])
    /\ cleanups' = Append(cleanups, i)
    /\ UNCHANGED <<interceptors, mounted, lastCall, storeVars, transformVars>>

NextStore ==
    \/ \E p \in Plans \cup {Null} : SetPlan(p)
    \/ \E update \in PlanUpdates : UpdateStep(update)

NextBindings ==
    \/ \E result \in CreateResults : CreatePlanToolUI(result)
    \/ \E result \in UpdateResults : UpdatePlanToolUI(result)

NextAdapter ==
    \/ \E c \in ChatBoxes, props \in AdapterProps : Mount(c, props)
    \/ \E c \in ChatBoxes, props \in AdapterProps : Rerender(c, props)
    \/ \E c \in ChatBoxes : Unmount(c)
    \/ \E call \in ProbeCalls : Fetch(call)

\* The create binding fires again and again for one create_plan result, a
\* new object of the same content at each delivery, between update results.
NextRedelivery ==
    \/ CreatePlanToolUI(RedeliveredResult)
    \/ \E result \in UpdateResults : UpdatePlanToolUI(result)

NextHandles ==
    \/ \E props \in AdapterProps : CallCreateFetchInterceptor(props)
    \/ \E i \in 1..Len(interceptors) : CallCleanup(i)
    \/ \E call \in ProbeCalls : Fetch(call)

NextWrapper ==
    \/ \E c \in ChatBoxes, props \in WrapperProps : Mount(c, props)
    \/ \E call \in FetchCalls : Fetch(call)

SpecStore == Init /\ [][NextStore]_vars
SpecBindings == Init /\ [][NextBindings]_vars
\* The arguments of one call of transformRequestToBackendFormat.
InitArguments ==
    /\ plan = Null
    /\ planRef = 0
    /\ lastOp = [op |-> "init"]
    /\ crashed = FALSE
    /\ trRequest \in Requests
    /\ trSystemMessage \in SystemMessages
    /\ backend = Undefined
    /\ windowFetch = 0
    /\ interceptors = <<>>
    /\ mounted = [c \in ChatBoxes |-> 0]
    /\ lastCall = Undefined
    /\ cleanups = <<>>

SpecTransform == InitArguments /\ [][Transform]_vars
SpecAdapter == Init /\ [][NextAdapter]_vars
SpecRedelivery == Init /\ [][NextRedelivery]_vars
SpecHandles == Init /\ [][NextHandles]_vars
SpecWrapper == Init /\ [][NextWrapper]_vars

(***************************************************************************)
(* Plan Store and bindings: properties                                     *)
(***************************************************************************)
\* An integer index outside [0, length) of the Plan p.
OutOfRange(i, p) == i.t = "num" /\ (i.n < 0 \/ i.n >= Len(p.steps))
InRange(i, p) == i.t = "num" /\ i.n >= 0 /\ i.n < Len(p.steps)

\* C2: updateStep with no Plan set, or with an index outside [0, length)
\* (-1 and length among them), leaves the store holding the very same value
\* (same content, same object) and raises nothing.
C2_UpdateStepNoOp ==
    [][ (/\ lastOp'.op = "updateStep"
         /\ (plan = Null \/ OutOfRange(lastOp'.update.index, plan)))
        => (plan' = plan /\ planRef' = planRef /\ ~crashed') ]_vars

C2_Witness ==
    /\ lastOp.op = "updateStep"
    /\ plan # Null
    /\ Len(plan.steps) = MaxSteps
    /\ lastOp.update.index = Num(Len(plan.steps))
    /\ lastOp.update.status = Str("completed")
    /\ \A i \in 1..Len(plan.steps) : plan.steps[i].status = Str("pending")

\* C3: updateStep with an in-range index i gives a Plan of the same length
\* whose Steps other than i are as before and whose Step i has description
\* and status replaced only where the update carries one; updateStep never
\* adds or removes a Step, and never creates a Plan.
C3_UpdateStepPatch ==
    [][ lastOp'.op = "updateStep" =>
          LET update == lastOp'.update
          IN /\ (plan = Null) = (plan' = Null)
             /\ plan # Null => Len(plan'.steps) = Len(plan.steps)
             /\ (plan # Null /\ InRange(update.index, plan)) =>
                  \A j \in 1..Len(plan.steps) :
                    IF j # update.index.n + 1
                    THEN plan'.steps[j] = plan.steps[j]
                    ELSE /\ plan'.steps[j].description =
                              (IF update.description = Undefined
                               THEN plan.steps[j].description ELSE update.description)
                         /\ plan'.steps[j].status =
                              (IF update.status = Undefined
                               THEN plan.steps[j].status ELSE update.status) ]_vars

C3_Witness ==
    /\ lastOp.op = "updateStep"
    /\ plan # Null
    /\ Len(plan.steps) = MaxSteps
    /\ lastOp.update = UpdatePlanResult(Num(MaxSteps - 1), Str("b"), Undefined)
    /\ plan.steps[MaxSteps] = PlanStep(Str("b"), Str("completed"))
    /\ plan.steps[1] = PlanStep(Str("a"), Str("pending"))

\* C4: a step that applies the same setPlan or updateStep the previous step
\* applied leaves the Plan (descriptions and statuses) as it was.
C4_Idempotent ==
    [][ (lastOp'.op \in {"setPlan", "updateStep"} /\ lastOp' = lastOp)
        => plan' = plan ]_vars

\* the same in-range update has been applied, and the patched Plan is there
C4_Witness ==
    /\ lastOp.op = "updateStep"
    /\ plan # Null
    /\ InRange(lastOp.update.index, plan)
    /\ lastOp.update.description = Str("b")
    /\ lastOp.update.status = Str("completed")
    /\ plan.steps[lastOp.update.index.n + 1] = PlanStep(Str("b"), Str("completed"))
    /\ planRef = 1

\* C5: whatever create_plan and update_plan_step results are delivered, the
\* store holds no Plan or a Plan with at least one Step.
C5_NoZeroStepPlan == plan = Null \/ Len(plan.steps) >= 1

\* a create_plan result was rejected while a Plan is held
C5_Witness ==
    /\ lastOp.op = "create_plan"
    /\ lastOp.normalized = Null
    /\ plan # Null
    /\ Len(plan.steps) = 1

\* C6: whatever results are delivered through the bindings, every Step of
\* the stored Plan has a non-empty text description and a status that is
\* pending or completed.
C6_StepValidity ==
    plan # Null =>
        \A i \in 1..Len(plan.steps) :
            /\ IsString(plan.steps[i].description)
            /\ plan.steps[i].description # Str("")
            /\ plan.steps[i].status \in Statuses

\* C13: a create_plan result that normalizes to a Plan makes the stored plan
\* exactly that Plan, whatever Plan was held; one that normalizes to absent
\* leaves the stored plan (content and object) as it was.
C13_CreateReplaces ==
    [][ lastOp'.op = "create_plan" =>
          IF lastOp'.normalized = Null
          THEN plan' = plan /\ planRef' = planRef
          ELSE plan' = lastOp'.normalized ]_vars

\* a one-Step Plan has replaced an earlier Plan
C13_Witness ==
    /\ lastOp.op = "create_plan"
    /\ lastOp.normalized = Plan(<<PlanStep(Str("a"), Str("pending"))>>)
    /\ plan = lastOp.normalized
    /\ planRef = 0

\* The field plan of a record, Undefined when the record has none.
HasPlanField(record) == record.t = "obj" /\ "plan" \in DOMAIN record.f
OneStepResult == Obj([plan |-> Obj([steps |-> Arr(<<Obj([description |-> Str("a")])>>)])])

\* C14 as stated: when the resolved record has a plan field the result is
\* normalizePlan of that field, whatever else the record holds; only a record
\* without a plan field is normalized itself.
C14_NestedPlanField ==
    lastOp.op = "create_plan" =>
        LET record == asRecord(lastOp.result)
        IN /\ record = Null => lastOp.normalized = Null
           /\ record # Null =>
                lastOp.normalized =
                    (IF HasPlanField(record) THEN normalizePlan(record.f.plan)
                     ELSE normalizePlan(record))
           /\ lastOp.result = OneStepResult =>
                lastOp.normalized = Plan(<<PlanStep(Str("a"), Str("pending"))>>)

\* C14 as amended: the nested field is normalized when it is truthy; a
\* record without a plan field, or with one that is null, false, 0 or empty
\* text, is normalized itself.
C14_TruthyPlanField ==
    lastOp.op = "create_plan" =>
        LET record == asRecord(lastOp.result)
        IN /\ record = Null => lastOp.normalized = Null
           /\ record # Null =>
                lastOp.normalized =
                    (IF HasPlanField(record) /\ Truthy(record.f.plan)
                     THEN normalizePlan(record.f.plan)
                     ELSE normalizePlan(record))
           /\ lastOp.result = OneStepResult =>
                lastOp.normalized = Plan(<<PlanStep(Str("a"), Str("pending"))>>)

C14_Witness ==
    /\ lastOp.op = "create_plan"
    /\ lastOp.result = OneStepResult
    /\ plan = Plan(<<PlanStep(Str("a"), Str("pending"))>>)

\* C15: normalizeUpdateResult yields absent or a PlanUpdate whose index is a
\* non-negative integer, whose description is there only as the record's
\* text description and whose status only as the record's pending or
\* completed.
C15_UpdateResultShape ==
    (lastOp.op = "update_plan_step" /\ ~IsThrow(lastOp.normalized)) =>
        LET record == asRecord(lastOp.result)
            update == lastOp.normalized
        IN update # Null =>
             /\ update.index.t = "num"
             /\ update.index.n >= 0
             /\ update.description # Undefined =>
                    (IsString(Get(record, "description"))
                        /\ update.description = Get(record, "description"))
             /\ update.status # Undefined =>
                    (Get(record, "status") \in Statuses
                        /\ update.status = Get(record, "status"))

\* The value normalizeCreateResult hands to normalizePlan.
PlanArgument(result) ==
    LET record == asRecord(result)
    IN IF HasPlanField(record) /\ Truthy(record.f.plan) THEN record.f.plan ELSE result
\* An entry of steps with a non-empty text description.
ValidEntry(entry) ==
    LET description == Get(asRecord(entry), "description")
    IN IsString(description) /\ description # Str("")
\* The Steps the claim gives for a value: the valid entries of its steps
\* sequence, in order; none when steps is no sequence.
StepsOf(value) ==
    LET steps == Get(asRecord(value), "steps")
        entries == IF steps.t = "arr" THEN SelectSeq(steps.a, ValidEntry) ELSE <<>>
    IN [i \in 1..Len(entries) |->
            PlanStep(Get(asRecord(entries[i]), "description"),
                     IF Get(asRecord(entries[i]), "status") = Str("completed")
                     THEN Str("completed") ELSE Str("pending"))]

\* C16: normalizePlan yields, in input order, the entries of steps that
\* have a non-empty text description, each completed exactly when its status
\* is "completed" and pending otherwise, and absent exactly when steps is no
\* sequence or holds no valid entry.
C16_NormalizePlan ==
    lastOp.op = "create_plan" =>
        LET steps == StepsOf(PlanArgument(lastOp.result))
        IN lastOp.normalized = (IF steps = <<>> THEN Null ELSE Plan(steps))

\* an invalid entry was discarded and an unrecognized status became pending
C16_Witness ==
    /\ lastOp.op = "create_plan"
    /\ lastOp.result = Obj([steps |-> Arr(<<Arr(<<>>),
                                Obj([description |-> Str("a"), status |-> Num(1)])>>)])
    /\ lastOp.normalized = Plan(<<PlanStep(Str("a"), Str("pending"))>>)
    /\ plan = lastOp.normalized

\* C10: no normalizer throws on any delivered value (each yields a domain
\* value or absent), so no render of a binding fails.
C10_NormalizersTotal ==
    /\ ~crashed
    /\ lastOp.op \in {"create_plan", "update_plan_step"} => ~IsThrow(lastOp.normalized)

(***************************************************************************)
(* Request Adapter: properties                                             *)
(***************************************************************************)
\* The concatenated text of the text-typed parts of a message.
RECURSIVE ConcatText(_)
ConcatText(parts) ==
    IF Len(parts) = 0 THEN ""
    ELSE (IF parts[1].f.type = Str("text") THEN parts[1].f.text.s ELSE "")
            \o ConcatText(Tail(parts))
\* The non-empty texts of the system-role messages of a request, in order.
SystemTexts(req) ==
    LET msgs == req.f.messages.a
        sys == SelectSeq(msgs, LAMBDA m : m.f.role = Str("system"))
        texts == [i \in 1..Len(sys) |-> ConcatText(sys[i].f.content.a)]
    IN SelectSeq(texts, LAMBDA x : x # "")
Transformed == backend # Undefined /\ backend.t = "obj"

\* C1 as stated: when an override (systemMessage) is provided and the request
\* holds a system message with non-empty text, the output system is the
\* override.
C1_OverrideWins ==
    (Transformed /\ Truthy(trSystemMessage) /\ SystemTexts(trRequest) # <<>>)
        => backend.f.system = trSystemMessage

\* C1 as amended: in that case the output system is the text of the last
\* system message with non-empty text (the request wins over the override);
\* the override is the output when the request has no such message.
C1_RequestSystemWins ==
    (Transformed /\ Truthy(trSystemMessage)) =>
        LET texts == SystemTexts(trRequest)
        IN backend.f.system =
              (IF texts # <<>> THEN Str(texts[Len(texts)]) ELSE trSystemMessage)

C1_Witness ==
    /\ Transformed
    /\ trSystemMessage = Str("O")
    /\ trRequest.f.messages.a = <<message("system", <<text("A"), text("B")>>),
                                  message("user", <<text("hi")>>)>>
    /\ backend.f.system = Str("AB")

\* The entry the claim gives for an entry of a tools sequence.
ToolOfEntry(e) ==
    IF IsString(e)
    THEN Obj([name |-> e, description |-> Undefined, parameters |-> Obj(<<>>)])
    ELSE Obj([name |-> Get(e, "name"), description |-> Get(e, "description"),
              parameters |-> Or(Get(e, "parameters"), Obj(<<>>))])
\* The entry the claim gives for a key and its value in a tools mapping.
ToolOfKey(k, v) ==
    Obj([name |-> Str(k), description |-> Get(v, "description"),
         parameters |-> Or(Get(v, "parameters"), Obj(<<>>))])

\* C11: the output tools is a sequence; it is empty when the input tools is
\* absent, [] or {}; it has one entry per entry of a non-empty input sequence,
\* in order, and one entry per key of a non-empty input mapping; and the
\* name of every output entry is text.
C11_ToolsSequence ==
    Transformed =>
        LET tools == Get(trRequest, "tools")
            out == backend.f.tools
        IN /\ out.t = "arr"
           /\ tools \in {Undefined, Arr(<<>>), Obj(<<>>)} => out = Arr(<<>>)
           /\ (tools.t = "arr" /\ Len(tools.a) > 0) =>
                 /\ Len(out.a) = Len(tools.a)
                 /\ \A i \in 1..Len(tools.a) : out.a[i] = ToolOfEntry(tools.a[i])
           /\ (tools.t = "obj" /\ DOMAIN tools.f # {}) =>
                 /\ Len(out.a) = Cardinality(DOMAIN tools.f)
                 /\ \A k \in DOMAIN tools.f :
                        \E i \in 1..Len(out.a) : out.a[i] = ToolOfKey(k, tools.f[k])
           /\ \A i \in 1..Len(out.a) : IsString(out.a[i].f.name)

\* The messages of a request whose role is user or assistant, in order.
KeptMessages(req) ==
    SelectSeq(req.f.messages.a,
              LAMBDA m : m.f.role = Str("user") \/ m.f.role = Str("assistant"))

\* C12: the output messages are the input messages of role user or
\* assistant, in order, each content part unchanged (all its fields, same
\* position).
C12_MessagesPassThrough ==
    Transformed => backend.f.messages = Arr(KeptMessages(trRequest))

\* The text of the last system-role message of a request, "" when none.
LastSystemText(req) ==
    LET sys == SelectSeq(req.f.messages.a, LAMBDA m : m.f.role = Str("system"))
    IN IF sys = <<>> THEN "" ELSE ConcatText(sys[Len(sys)].f.content.a)

\* C19 as stated: with no override the output system is the concatenated
\* text of the last system-role message, also when that text is empty.
C19_LastSystemWins ==
    (Transformed /\ ~Truthy(trSystemMessage))
        => backend.f.system = Str(LastSystemText(trRequest))

\* C19 as amended: with no override the output system is the concatenated
\* text of the last system-role message whose text is not empty, and empty
\* text when there is none.
C19_LastNonEmptySystemWins ==
    (Transformed /\ ~Truthy(trSystemMessage)) =>
        LET texts == SystemTexts(trRequest)
        IN backend.f.system = Str(IF texts # <<>> THEN texts[Len(texts)] ELSE "")

C19_Witness ==
    /\ Transformed
    /\ trSystemMessage = Undefined
    /\ trRequest.f.messages.a = <<message("system", <<text("A"), text("B")>>),
                                  message("system", <<text("")>>)>>
    /\ backend.f.system = Str("AB")

\* The call recorded in lastCall was a POST to the endpoint of closure self.
Matching(self) ==
    /\ lastCall.call.init # Undefined
    /\ lastCall.call.init.method = Str("POST")
    /\ lastCall.call.input.t \in {"str", "URL"}
    /\ includes(IF lastCall.call.input.t = "str" THEN lastCall.call.input.s
                ELSE lastCall.call.input.href, self.apiEndpoint)
Entered(f) == \E i \in 1..Len(lastCall.hops) : lastCall.hops[i].fn = f

\* C7: a matching call made through window.fetch while a ChatBox is mounted
\* (its interceptor installed, its cleanup not yet called) passes through
\* that ChatBox's wrapper, whatever other ChatBoxes installed or restored.
C7_WrapperSurvivesOtherRestore ==
    lastCall # Undefined =>
        \A i \in lastCall.active : Matching(interceptors[i]) => Entered(i)

\* C8: once every interceptor installed has had its cleanup called exactly
\* once (every ChatBox is unmounted), window.fetch is the browser's fetch.
C8_NoWrapperLeak ==
    (interceptors # <<>> /\ \A c \in ChatBoxes : mounted[c] = 0) => windowFetch = 0

\* C20: a call of a cleanup function that has been called before leaves
\* window.fetch as it was just before that call.
C20_RestoreIdempotent ==
    [][ (/\ cleanups' # cleanups
         /\ \E k \in 1..Len(cleanups) : cleanups[k] = cleanups'[Len(cleanups')])
        => windowFetch' = windowFetch ]_vars

\* The header set a headers value stands for, whatever its form.
HeaderEntries(h) ==
    CASE h.t = "obj" -> h.f
      [] h.t = "Headers" -> h.h
      [] OTHER -> <<>>
\* The try block of the wrapper fails on this body.
CannotTransform(self, body) ==
    /\ Truthy(body)
    /\ body # FormData
    /\ \/ IsString(body) /\ IsThrow(JSONparse(body))
       \/ IsThrow(transformRequestToBackendFormat(
                    IF IsString(body) THEN JSONparse(body) ELSE body, self.systemMessage))

\* C9: when the body of a matching call cannot be parsed or transformed, the
\* wrapper calls the captured function exactly once, with the original body
\* and with the configured headers and the call's own headers merged (the
\* call's own winning), and raises nothing.
C9_FailOpen ==
    (lastCall # Undefined /\ lastCall.hops[1].fn # 0) =>
        LET self == interceptors[lastCall.hops[1].fn]
            init == lastCall.call.init
            made == SelectSeq(lastCall.hops, LAMBDA hop : hop.fn = self.originalFetch)
        IN (Matching(self) /\ CannotTransform(self, init.body)) =>
              /\ Len(made) = 1
              /\ ~lastCall.hops[1].raised
              /\ made[1].input = lastCall.call.input
              /\ made[1].init.method = init.method
              /\ made[1].init.body = init.body
              /\ LET sent == HeaderEntries(made[1].init.headers)
                     own == HeaderEntries(init.headers)
                 IN /\ \A k \in DOMAIN own : k \in DOMAIN sent /\ sent[k] = own[k]
                    /\ \A k \in DOMAIN self.headers \ DOMAIN own :
                            k \in DOMAIN sent /\ sent[k] = self.headers[k]

\* The URL a call targets, whatever the form of its first argument.
TargetUrl(input) ==
    CASE input.t = "str" -> input.s
      [] input.t = "URL" -> input.href
      [] input.t = "Request" -> input.url

\* C17: the first wrapper a call enters rewrites it (the body it hands to
\* its captured function is the transformed request) exactly when the call
\* is a POST whose target matches the endpoint, whatever the form of the
\* target and the type of the body, a body that cannot be transformed apart
\* (C9); any other call is handed on with its arguments unchanged.
C17_RewriteIffMatching ==
    (lastCall # Undefined /\ lastCall.hops[1].fn # 0) =>
        LET self == interceptors[lastCall.hops[1].fn]
            call == lastCall.call
            made == lastCall.hops[2]
        IN IF /\ call.init # Undefined
              /\ call.init.method = Str("POST")
              /\ includes(TargetUrl(call.input), self.apiEndpoint)
           THEN \/ CannotTransform(self, call.init.body)
                \/ /\ made.input = call.input
                   /\ made.init.body = JSONstringify(transformRequestToBackendFormat(
                          IF ~Truthy(call.init.body) THEN Obj(<<>>)
                          ELSE IF IsString(call.init.body) THEN JSONparse(call.init.body)
                          ELSE call.init.body, self.systemMessage))
           ELSE made.input = call.input /\ made.init = call.init

\* C18: a rewritten request carries the union of the configured headers and
\* the call's own headers, the call's own value on a key both carry, and
\* Content-Type application/json whatever the configuration or the call
\* supplied for it.
C18_HeaderMerge ==
    (lastCall # Undefined /\ lastCall.hops[1].fn # 0) =>
        LET self == interceptors[lastCall.hops[1].fn]
            init == lastCall.call.init
            made == lastCall.hops[2]
        IN (Matching(self) /\ init.body # FormData /\ ~CannotTransform(self, init.body)) =>
              LET sent == HeaderEntries(made.init.headers)
                  own == HeaderEntries(init.headers)
              IN /\ DOMAIN sent = DOMAIN own \cup DOMAIN self.headers \cup {"Content-Type"}
                 /\ sent["Content-Type"] = "application/json"
                 /\ \A k \in DOMAIN own \ {"Content-Type"} : sent[k] = own[k]
                 /\ \A k \in DOMAIN self.headers \ (DOMAIN own \cup {"Content-Type"}) :
                        sent[k] = self.headers[k]

\* C22: under SpecRedelivery every create_plan delivery carries the same
\* result; once it has set the plan, a later delivery of it leaves the
\* descriptions and statuses held in the store (patched or not) as they are.
C22_ProgressKept ==
    [][ (lastOp'.op = "create_plan" /\ plan # Null) => plan' = plan ]_vars

\* The wrappers a call through window.fetch passes, outermost first.
RECURSIVE WrapperChain(_)
WrapperChain(f) ==
    IF f = 0 THEN <<>> ELSE <<f>> \o WrapperChain(interceptors[f].originalFetch)

\* C21: the chain of wrappers reachable from window.fetch holds at most one
\* wrapper per endpoint, and a matching call enters exactly one wrapper.
C21_OneWrapperPerEndpoint ==
    /\ LET chain == WrapperChain(windowFetch)
       IN \A i, j \in 1..Len(chain) :
            interceptors[chain[i]].apiEndpoint = interceptors[chain[j]].apiEndpoint
                => i = j
    /\ (lastCall # Undefined /\ lastCall.hops[1].fn # 0
            /\ Matching(interceptors[lastCall.hops[1].fn]))
        => Len(SelectSeq(lastCall.hops, LAMBDA hop : hop.fn # 0)) = 1

\* C23: when a matching call passes two wrappers of the same configuration,
\* the body the inner wrapper hands on (the transform of the outer one's
\* re-parsed output) is the body the outer wrapper produced: same system,
\* tools and messages as with one wrapper.
C23_StackedWrappersSameRequest ==
    (lastCall # Undefined /\ Len(lastCall.hops) >= 3) =>
        LET outer == interceptors[lastCall.hops[1].fn]
            inner == interceptors[lastCall.hops[2].fn]
            init == lastCall.call.init
        IN (/\ Matching(outer) /\ Matching(inner)
            /\ outer.systemMessage = inner.systemMessage
            /\ init.body # FormData
            /\ ~CannotTransform(outer, init.body))
           => lastCall.hops[3].init.body = lastCall.hops[2].init.body

====
